---------------------------- MODULE Spec2Model ----------------------------
(***************************************************************************)
(* A model of talwai/orderapi: the `orders` table in Postgres, the         *)
(* transaction of OrderDatabase.UpdateOrderStatus (database.go), the       *)
(* creation flow Order.Resolve / InsertOrder and the HTTP handlers         *)
(* updateOrder and createOrder (main.go), under Spec; the listing          *)
(* listOrders / RetrieveOrders under ListSpec; LatLng.IsValid on its own   *)
(* under FnSpec; the calls of UpdateOrderStatus under their deadlines      *)
(* under FairSpec; a client paging through the list under WalkSpec.        *)
(*                                                                         *)
(* net/http serves every request on a goroutine of its own, so the model   *)
(* has one process per in-flight request; each runs one handler (or one    *)
(* direct call of the store) from its first statement to its return.  A    *)
(* handler is cut into steps at its database round trips, the only places  *)
(* where requests interact.                                                *)
(***************************************************************************)
EXTENDS Integers, Sequences, FiniteSets, TLC

\* Number of requests in flight at once.
MaxRequests == 2
\* Rows the table may hold.
MaxOrders == 2

Procs == 1..MaxRequests

\* main.go:22-23
OrderStatusUnassign == "UNASSIGN"
OrderStatusTaken == "taken"
Statuses == {OrderStatusUnassign, OrderStatusTaken}

\* error values (nil, database/sql, context, database.go:15-18)
NoErr == "nil"
ErrNoRows == "sql: no rows in result set"
OrderAlreadyTakenError == "ORDER_ALREADY_BEEN_TAKEN"
OrderAlreadyUnassignError == "ORDER_ALREADY_UNASSIGN"
DeadlineExceeded == "context deadline exceeded"
StorageFault == "driver: bad connection"
NoRoutes == "No routes found by Google Maps"
MapsFault == "maps: request failed"
PersistenceErrors == {DeadlineExceeded, StorageFault}

\* net/http status codes written by the handlers
StatusOK == 200
StatusBadRequest == 400
StatusNotFound == 404
StatusConflict == 409
StatusInternalServerError == 500
\* no response written (a direct call of the store, or a handler still running)
NoResponse == 0

NoHolder == 0

(***************************************************************************)
(* Strings are sequences of characters.                                    *)
(***************************************************************************)
Digits == {"0", "1", "2", "3", "4", "5", "6", "7", "8", "9"}

DigitVal(c) ==
    CASE c = "0" -> 0 [] c = "1" -> 1 [] c = "2" -> 2 [] c = "3" -> 3
      [] c = "4" -> 4 [] c = "5" -> 5 [] c = "6" -> 6 [] c = "7" -> 7
      [] c = "8" -> 8 [] c = "9" -> 9

RECURSIVE DigitsValue(_)
DigitsValue(s) ==
    IF s = <<>> THEN 0
    ELSE 10 * DigitsValue(SubSeq(s, 1, Len(s) - 1)) + DigitVal(s[Len(s)])

RECURSIVE Pow10(_)
Pow10(n) == IF n = 0 THEN 1 ELSE 10 * Pow10(n - 1)

\* strconv.Atoi(s): an optional sign and decimal digits
Atoi(s) ==
    LET signed == Len(s) > 0 /\ s[1] \in {"-", "+"}
        body == IF signed THEN Tail(s) ELSE s
        ok == Len(body) > 0 /\ \A i \in DOMAIN body : body[i] \in Digits
    IN  IF ok
        THEN [err |-> FALSE,
              val |-> IF signed /\ s[1] = "-" THEN 0 - DigitsValue(body)
                      ELSE DigitsValue(body)]
        ELSE [err |-> TRUE, val |-> 0]

\* strconv.ParseFloat(s, 64): "NaN", a signed "Inf", or an optional sign,
\* digits with at most one point and at least one digit, and an optional
\* exponent.  A finite value is num / 10^scale, exactly: the texts of the model
\* are short enough for float64 to order them against 90 and 180 as the
\* decimal values are ordered.
ParseFloat(s) ==
    LET signed == Len(s) > 0 /\ s[1] \in {"-", "+"}
        body == IF signed THEN Tail(s) ELSE s
        es == {i \in DOMAIN body : body[i] \in {"e", "E"}}
        e == IF es = {} THEN Len(body) + 1 ELSE CHOOSE i \in es : TRUE
        mant == SubSeq(body, 1, e - 1)
        expo == IF es = {} THEN [err |-> FALSE, val |-> 0]
                ELSE Atoi(SubSeq(body, e + 1, Len(body)))
        dots == {i \in DOMAIN mant : mant[i] = "."}
        ok == /\ Len(mant) > 0
              /\ \A i \in DOMAIN mant : mant[i] \in Digits \cup {"."}
              /\ Cardinality(dots) <= 1
              /\ \E i \in DOMAIN mant : mant[i] \in Digits
              /\ Cardinality(es) <= 1
              /\ ~expo.err
        dot == IF dots = {} THEN Len(mant) + 1 ELSE CHOOSE i \in dots : TRUE
        ds == SubSeq(mant, 1, dot - 1) \o SubSeq(mant, dot + 1, Len(mant))
        mag == DigitsValue(ds)
        frac == IF dots = {} THEN 0 ELSE Len(mant) - dot
        shift == frac - expo.val
        val == IF shift < 0 THEN mag * Pow10(0 - shift) ELSE mag
    IN  IF s = <<"N", "a", "N">> \/ body = <<"I", "n", "f">>
        THEN [err |-> FALSE, finite |-> FALSE, num |-> 0, scale |-> 0]
        ELSE IF ok
        THEN [err |-> FALSE, finite |-> TRUE,
              num |-> IF signed /\ s[1] = "-" THEN 0 - val ELSE val,
              scale |-> IF shift < 0 THEN 0 ELSE shift]
        ELSE [err |-> TRUE, finite |-> FALSE, num |-> 0, scale |-> 0]

\* the bounds compared with > and <
IsValid_ExclusiveBounds(l) ==
    IF Len(l) = 2
    THEN LET lat == ParseFloat(l[1])
             lng == ParseFloat(l[2])
         IN  IF ~lat.err /\ ~lng.err
             THEN /\ lat.finite /\ lng.finite
                  /\ lat.num > (0 - 90) * Pow10(lat.scale)
                  /\ lat.num < 90 * Pow10(lat.scale)
                  /\ lng.num > (0 - 180) * Pow10(lng.scale)
                  /\ lng.num < 180 * Pow10(lng.scale)
             ELSE FALSE
    ELSE FALSE

\* main.go:76-89 (every comparison with NaN is false, and an infinity is
\* outside both ranges)
IsValid(l) ==
    IF Len(l) = 2
    THEN LET lat == ParseFloat(l[1])
             lng == ParseFloat(l[2])
         IN  IF ~lat.err /\ ~lng.err
             THEN /\ lat.finite /\ lng.finite
                  /\ lat.num >= (0 - 90) * Pow10(lat.scale)
                  /\ lat.num <= 90 * Pow10(lat.scale)
                  /\ lng.num >= (0 - 180) * Pow10(lng.scale)
                  /\ lng.num <= 180 * Pow10(lng.scale)
             ELSE FALSE
    ELSE FALSE

InvalidLatLngText == <<"Invalid Latitude Longitude Input!">>

\* main.go:91-98
LatLngString(l) ==
    IF ~IsValid(l) THEN InvalidLatLngText ELSE l[1] \o <<",">> \o l[2]

(***************************************************************************)
(* Inputs.                                                                 *)
(***************************************************************************)
OriginLatLng == << <<"1", "2", ".", "9">>, <<"7", "7", ".", "5">> >>
DestLatLng == << <<"-", "9", "0">>, <<"1", "8", "0">> >>
BadLatLng == << <<"b", "a", "d">> >>
\* a latitude out of range
FarLatLng == << <<"9", "1">>, <<"0">> >>

\* request bodies of POST /order, decoded
OrderBodies ==
    { [Origin |-> DestLatLng, Destination |-> OriginLatLng],
      [Origin |-> BadLatLng, Destination |-> DestLatLng],
      [Origin |-> OriginLatLng, Destination |-> FarLatLng] }
NoOrder == [Origin |-> <<>>, Destination |-> <<>>]

\* driving distances the Distance Matrix API may answer, in meters
Distances == {1450, 3527}

\* order ids a request may name: 0 never exists, 1 and 2 may
OrderIds == {0, 1, 2}
\* texts of the {id} path variable
IdVars == {<<"0">>, <<"1">>, <<"2">>, <<"4", "3", ".", "5">>}
\* the status a PUT body names
PutStatuses == {OrderStatusTaken, OrderStatusUnassign, "bogus"}

NoResolved == [Id |-> 0, Distance |-> 0, Status |-> ""]

VARIABLES
    orders,     \* the orders table: row id is the index (id serial PRIMARY KEY)
    lock,       \* lock[o]: the request whose transaction holds row o's lock
    req,        \* req[p]: locals of the handler serving request p
    takesInRound, \* history: successful Takes of o since its last successful Release
    heap,       \* the ids of the table's rows in the order a scan reads them
    get,        \* locals of the handler serving a GET /orders request
    arg,        \* the argument of a function applied on its own
    result,     \* its result
    walk        \* a client paging through the list: its limit, the pages read

vars == <<orders, lock, req, takesInRound, heap, get, arg, result, walk>>

\* what the requests of Spec never touch: Spec does not follow the scan order
\* of the table, ListSpec does
listVars == <<heap, get>>
fnVars == <<arg, result>>

Row(origin, destination, distance, status) ==
    [origin |-> origin, destination |-> destination,
     distance |-> distance, status |-> status]

Exists(o) == o \in DOMAIN orders

IdleReq ==
    [op |-> "none", pc |-> "idle", orderId |-> 0, newStatus |-> "",
     reqStatus |-> "", status |-> "", seen |-> "", txRows |-> {},
     err |-> NoErr,
     http |-> NoResponse, order |-> NoOrder, distance |-> 0,
     resolved |-> NoResolved]

\* A table left by earlier requests: rows written by InsertOrder, whose status
\* an earlier transition may have changed.
InitialRows ==
    { Row(LatLngString(OriginLatLng), LatLngString(DestLatLng), d, s) :
        d \in {1450}, s \in Statuses }

Init ==
    /\ orders \in UNION { [1..n -> InitialRows] : n \in 0..MaxOrders }
    /\ lock = [o \in 1..MaxOrders |-> NoHolder]
    /\ req = [p \in Procs |-> IdleReq]
    /\ takesInRound =
         [o \in 1..MaxOrders |->
            IF o \in DOMAIN orders /\ orders[o].status = OrderStatusTaken
            THEN 1 ELSE 0]
    /\ heap = <<>>
    /\ get = <<>>
    /\ arg = <<>>
    /\ result = <<>>
    /\ walk = <<>>

\* Requests are numbered in the order they arrive: request p arrives when
\* every request before it has.
Arrives(p) ==
    /\ req[p].pc = "idle"
    /\ \A q \in Procs : q < p => req[q].pc # "idle"

\* history: the committed status of row o when a Take of it was called
SeenStatus(o) == IF Exists(o) THEN orders[o].status ELSE ""

(***************************************************************************)
(* PUT /order/{id}: updateOrder (main.go:346-442).                         *)
(***************************************************************************)

\* the switch without its sql.ErrNoRows case: a missing row falls to default
UpdateOrderResponse_NoRowsCaseMissing(e) ==
    CASE e = NoErr -> StatusOK
      [] e = OrderAlreadyTakenError -> StatusConflict
      [] OTHER -> StatusInternalServerError

\* the conflict answered by the case of the missing row
UpdateOrderResponse_ConflictAsNotFound(e) ==
    CASE e = NoErr -> StatusOK
      [] e \in {ErrNoRows, OrderAlreadyTakenError} -> StatusNotFound
      [] OTHER -> StatusInternalServerError

\* main.go:405-441: the response written for the error of the transition
UpdateOrderResponse(e) ==
    CASE e = NoErr -> StatusOK
      [] e = ErrNoRows -> StatusNotFound
      [] e = OrderAlreadyTakenError -> StatusConflict
      [] OTHER -> StatusInternalServerError

\* a handler writes its response and returns
Respond(r, code) == [r EXCEPT !.pc = "done", !.http = code]

\* the return of UpdateOrderStatus with error e, and the caller's response
Return(r, e) ==
    [r EXCEPT !.pc = "done", !.err = e, !.txRows = {},
              !.http = IF r.op = "put" THEN UpdateOrderResponse(e)
                       ELSE NoResponse]

\* database.go:83-92: the call of UpdateOrderStatus up to BeginTx, which
\* fails (beginErr) or opens the transaction
UpdateOrderStatusCall(r, orderId, newStatus, beginErr) ==
    LET called == [r EXCEPT !.orderId = orderId, !.newStatus = newStatus]
    IN  IF beginErr THEN Return(called, StorageFault)
        ELSE [called EXCEPT !.pc = "select"]

\* main.go:403 calls it; its body is in no file of src/.  It is the Take of
\* the design: the transition of database.go with target OrderStatusTaken.
TakeOrderIfUnassigned(r, orderId, beginErr) ==
    UpdateOrderStatusCall(r, orderId, OrderStatusTaken, beginErr)

\* main.go:346-403: the handler up to the call of the store.  The path
\* variable is parsed first, then the body is decoded, then its status checked.
updateOrder(r, idVar, decodeErr, st, beginErr) ==
    LET got == [r EXCEPT !.op = "put"]
        orderId == Atoi(idVar)
    IN  IF orderId.err THEN Respond(got, StatusBadRequest)
        ELSE IF decodeErr
        THEN Respond([got EXCEPT !.orderId = orderId.val], StatusBadRequest)
        ELSE IF st # OrderStatusTaken
        THEN Respond([got EXCEPT !.orderId = orderId.val, !.reqStatus = st],
                     StatusBadRequest)
        ELSE TakeOrderIfUnassigned(
               [got EXCEPT !.reqStatus = st,
                           !.seen = SeenStatus(orderId.val)],
               orderId.val, beginErr)

ReceivePut(p) ==
    /\ Arrives(p)
    /\ UNCHANGED <<listVars, fnVars, walk>>
    /\ \E idVar \in IdVars, decodeErr \in BOOLEAN, st \in PutStatuses,
          beginErr \in BOOLEAN :
         req' = [req EXCEPT ![p] =
                   updateOrder(req[p], idVar, decodeErr, st, beginErr)]
    /\ UNCHANGED <<orders, lock, takesInRound>>

\* A direct call UpdateOrderStatus(orderId, newStatus) of the store, which
\* "updates an order's status from UNASSIGN -> taken, or vice versa"
\* (database.go:75): a Take or a Release.
CallUpdateOrderStatus(p) ==
    /\ Arrives(p)
    /\ UNCHANGED <<listVars, fnVars, walk>>
    /\ \E o \in OrderIds, newStatus \in Statuses, beginErr \in BOOLEAN :
         req' = [req EXCEPT ![p] =
                   UpdateOrderStatusCall(
                     [req[p] EXCEPT !.op = "call",
                                   !.seen = IF newStatus = OrderStatusTaken
                                            THEN SeenStatus(o) ELSE ""],
                     o, newStatus, beginErr)]
    /\ UNCHANGED <<orders, lock, takesInRound>>

(***************************************************************************)
(* OrderDatabase.UpdateOrderStatus (database.go:83-136).                   *)
(***************************************************************************)

\* the end of a transaction leaves its row locks held
ReleaseLocks_KeepsLock(p) == lock

\* the end of p's transaction (Commit or Rollback) releases its row locks
ReleaseLocks(p) ==
    [o \in DOMAIN lock |-> IF lock[o] = p THEN NoHolder ELSE lock[o]]

\* the table after p's transaction commits its write
Committed(tbl, rows, newStatus) ==
    [o \in DOMAIN tbl |->
       IF o \in rows THEN [tbl[o] EXCEPT !.status = newStatus] ELSE tbl[o]]

\* the deferred function with its test inverted: an error commits
Rollback_CommitsWrite(p, e) ==
    /\ req' = [req EXCEPT ![p] = Return(req[p], e)]
    /\ lock' = ReleaseLocks(p)
    /\ orders' = Committed(orders, req[p].txRows, req[p].newStatus)
    /\ UNCHANGED takesInRound

\* database.go:93-97: a return with err # nil rolls the transaction back
Rollback(p, e) ==
    /\ req' = [req EXCEPT ![p] = Return(req[p], e)]
    /\ lock' = ReleaseLocks(p)
    /\ UNCHANGED <<orders, takesInRound>>

\* the check of the status read left out
ConflictError_None(status, newStatus) == NoErr

\* the two errors exchanged
ConflictError_Swapped(status, newStatus) ==
    IF status = newStatus
    THEN IF newStatus = OrderStatusTaken THEN OrderAlreadyUnassignError
         ELSE IF newStatus = OrderStatusUnassign THEN OrderAlreadyTakenError
         ELSE NoErr
    ELSE NoErr

\* the check without its branch for OrderStatusUnassign
ConflictError_TakenOnly(status, newStatus) ==
    IF status = newStatus /\ newStatus = OrderStatusTaken
    THEN OrderAlreadyTakenError
    ELSE NoErr

\* database.go:112-119 (NoErr: the function goes on to the UPDATE)
ConflictError(status, newStatus) ==
    IF status = newStatus
    THEN IF newStatus = OrderStatusTaken THEN OrderAlreadyTakenError
         ELSE IF newStatus = OrderStatusUnassign THEN OrderAlreadyUnassignError
         ELSE NoErr
    ELSE NoErr

\* the SELECT without FOR UPDATE: it neither waits for the row's lock nor
\* takes it
SelectForUpdate_NoLock(p) ==
    LET o == req[p].orderId IN
    /\ req[p].pc = "select"
    /\ UNCHANGED <<listVars, fnVars, walk>>
    /\ \/ /\ ~Exists(o)
          /\ Rollback(p, ErrNoRows)
       \/ /\ Exists(o)
          /\ LET status == orders[o].status
                 e == ConflictError(status, req[p].newStatus)
             IN  IF e # NoErr
                 THEN Rollback(p, e)
                 ELSE /\ req' = [req EXCEPT ![p].pc = "update",
                                            ![p].status = status]
                      /\ UNCHANGED <<orders, lock, takesInRound>>
       \/ Rollback(p, StorageFault)

\* the SELECT waits for the row's lock but does not keep it
SelectForUpdate_LockNotHeld(p) ==
    LET o == req[p].orderId IN
    /\ req[p].pc = "select"
    /\ UNCHANGED <<listVars, fnVars, walk>>
    /\ \/ /\ ~Exists(o)
          /\ Rollback(p, ErrNoRows)
       \/ /\ Exists(o)
          /\ lock[o] = NoHolder
          /\ LET status == orders[o].status
                 e == ConflictError(status, req[p].newStatus)
             IN  IF e # NoErr
                 THEN Rollback(p, e)
                 ELSE /\ req' = [req EXCEPT ![p].pc = "update",
                                            ![p].status = status]
                      /\ UNCHANGED <<orders, lock, takesInRound>>
       \/ Rollback(p, StorageFault)

\* database.go:102-119: SELECT status ... FOR UPDATE waits for the row's lock,
\* takes it and reads the committed status; then the check of the status read.
SelectForUpdate(p) ==
    LET o == req[p].orderId IN
    /\ req[p].pc = "select"
    /\ UNCHANGED <<listVars, fnVars, walk>>
    /\ \/ /\ ~Exists(o)
          /\ Rollback(p, ErrNoRows)
       \/ /\ Exists(o)
          /\ lock[o] = NoHolder
          /\ LET status == orders[o].status
                 e == ConflictError(status, req[p].newStatus)
             IN  IF e # NoErr
                 THEN Rollback(p, e)
                 ELSE /\ req' = [req EXCEPT ![p].pc = "update",
                                            ![p].status = status]
                      /\ lock' = [lock EXCEPT ![o] = p]
                      /\ UNCHANGED <<orders, takesInRound>>
       \/ Rollback(p, StorageFault)

\* the WHERE clause without `id = $2`
UpdatedRows_NoIdFilter(tbl, newStatus, orderId, status) ==
    {o \in DOMAIN tbl : tbl[o].status = status}

\* the WHERE clause comparing the status with the target, not the status read
UpdatedRows_TargetStatus(tbl, newStatus, orderId, status) ==
    {o \in DOMAIN tbl : o = orderId /\ tbl[o].status = newStatus}

\* database.go:122-125: the rows the WHERE clause of the UPDATE selects
UpdatedRows(tbl, newStatus, orderId, status) ==
    {o \in DOMAIN tbl : o = orderId /\ tbl[o].status = status}

\* database.go:121-133: the UPDATE, written inside the transaction; Scan of
\* its RETURNING row fails with ErrNoRows when no row was updated.
UpdateRow(p) ==
    LET o == req[p].orderId
        rows == UpdatedRows(orders, req[p].newStatus, o, req[p].status)
    IN
    /\ req[p].pc = "update"
    /\ UNCHANGED <<listVars, fnVars, walk>>
    /\ \/ /\ lock[o] \in {NoHolder, p}
          /\ IF rows = {}
             THEN Rollback(p, ErrNoRows)
             ELSE /\ req' = [req EXCEPT ![p].pc = "commit",
                                        ![p].txRows = rows]
                  /\ lock' = [lock EXCEPT ![o] = p]
                  /\ UNCHANGED <<orders, takesInRound>>
       \/ Rollback(p, StorageFault)

\* the deferred function drops the error of tx.Commit(): a failed commit
\* returns nil
Commit_ErrorDropped(p) ==
    /\ req[p].pc = "commit"
    /\ UNCHANGED <<listVars, fnVars, walk>>
    /\ \/ /\ orders' = Committed(orders, req[p].txRows, req[p].newStatus)
          /\ req' = [req EXCEPT ![p] = Return(req[p], NoErr)]
          /\ lock' = ReleaseLocks(p)
          /\ takesInRound' =
               [o \in DOMAIN takesInRound |->
                  IF o \in req[p].txRows
                  THEN IF req[p].newStatus = OrderStatusTaken
                       THEN takesInRound[o] + 1 ELSE 0
                  ELSE takesInRound[o]]
       \/ Rollback(p, NoErr)

\* database.go:135 and 93-100: return nil, and the deferred tx.Commit()
Commit(p) ==
    /\ req[p].pc = "commit"
    /\ UNCHANGED <<listVars, fnVars, walk>>
    /\ \/ /\ orders' = Committed(orders, req[p].txRows, req[p].newStatus)
          /\ req' = [req EXCEPT ![p] = Return(req[p], NoErr)]
          /\ lock' = ReleaseLocks(p)
          /\ takesInRound' =
               [o \in DOMAIN takesInRound |->
                  IF o \in req[p].txRows
                  THEN IF req[p].newStatus = OrderStatusTaken
                       THEN takesInRound[o] + 1 ELSE 0
                  ELSE takesInRound[o]]
       \/ Rollback(p, StorageFault)

InTx(r) == r.pc \in {"select", "update", "commit"}

\* database.go:84-85: the context's deadline (ctxTimeoutMs after the call)
\* passes while the call is at one of its round trips; that round trip fails
\* with the context's error and database/sql rolls the transaction back.
\* Every call has the same timeout, so the deadline of a call that began
\* earlier passes first.
Deadline(p) ==
    /\ InTx(req[p])
    /\ UNCHANGED <<listVars, fnVars, walk>>
    /\ \A q \in Procs : q < p => ~InTx(req[q])
    /\ Rollback(p, DeadlineExceeded)

(***************************************************************************)
(* POST /order: createOrder, Order.Resolve, computeDistance, InsertOrder.   *)
(***************************************************************************)

\* answers of mapsClient.DistanceMatrix: an error, or rows of elements, each
\* element a distance in meters (no row, a row of no element, a row of one)
ApiResponses ==
    {[err |-> TRUE, rows |-> <<>>], [err |-> FALSE, rows |-> <<>>],
     [err |-> FALSE, rows |-> << <<>> >>]}
    \cup {[err |-> FALSE, rows |-> << <<d>> >>] : d \in Distances}

\* main.go:136-139: math.MaxInt64 stands above every distance of the model
MaxInt64 == 2147483647

SetMin(S) == CHOOSE x \in S : \A y \in S : x <= y

\* main.go:123-161: [err, Meters]
computeDistance(resp) ==
    IF resp.err THEN [err |-> MapsFault, Meters |-> MaxInt64]
    ELSE IF Len(resp.rows) = 0 THEN [err |-> NoRoutes, Meters |-> MaxInt64]
    ELSE [err |-> NoErr,
          Meters |-> SetMin({MaxInt64} \cup
                       UNION {{resp.rows[i][j] : j \in DOMAIN resp.rows[i]} :
                                i \in DOMAIN resp.rows})]

\* the validation looks at the origin alone
createOrder_OriginOnly(r, decodeErr, body) ==
    LET got == [r EXCEPT !.op = "post"] IN
    IF decodeErr THEN Respond(got, StatusBadRequest)
    ELSE IF ~IsValid(body.Origin)
    THEN Respond([got EXCEPT !.order = body], StatusBadRequest)
    ELSE [got EXCEPT !.order = body, !.pc = "resolve"]

\* main.go:193-224: the handler up to the call of Resolve
createOrder(r, decodeErr, body) ==
    LET got == [r EXCEPT !.op = "post"] IN
    IF decodeErr THEN Respond(got, StatusBadRequest)
    ELSE IF ~(IsValid(body.Origin) /\ IsValid(body.Destination))
    THEN Respond([got EXCEPT !.order = body], StatusBadRequest)
    ELSE [got EXCEPT !.order = body, !.pc = "resolve"]

ReceivePost(p) ==
    /\ Arrives(p)
    /\ UNCHANGED <<listVars, fnVars, walk>>
    /\ \E decodeErr \in BOOLEAN, body \in OrderBodies :
         req' = [req EXCEPT ![p] = createOrder(req[p], decodeErr, body)]
    /\ UNCHANGED <<orders, lock, takesInRound>>

\* Resolve without its return on the error of computeDistance: it goes on to
\* the insert
ResolveFailed_GoesOn(r, e) == [r EXCEPT !.pc = "insert", !.err = e]

\* main.go:226-235: the response of createOrder for a failed Resolve
ResolveFailed(r, e) ==
    [r EXCEPT !.pc = "done", !.err = e, !.distance = 0,
              !.http = StatusInternalServerError]

\* main.go:166-171: Resolve asks for the distance
ResolveDistance(p) ==
    /\ req[p].pc = "resolve"
    /\ UNCHANGED <<listVars, fnVars, walk>>
    /\ \E resp \in ApiResponses :
         LET d == computeDistance(resp) IN
         req' = [req EXCEPT ![p] =
                   IF d.err # NoErr THEN ResolveFailed(req[p], d.err)
                   ELSE [req[p] EXCEPT !.pc = "insert",
                                       !.distance = d.Meters]]
    /\ UNCHANGED <<orders, lock, takesInRound>>

\* the INSERT with the destination bound to the status column
InsertOrder_StatusColumn(tbl, origin, destination, status, distance) ==
    Append(tbl, Row(origin, destination, distance, destination))

\* the INSERT with origin and destination bound to each other's column
InsertOrder_SwapOriginDestination(tbl, origin, destination, status, distance) ==
    Append(tbl, Row(destination, origin, distance, status))

\* database.go:54-70: INSERT INTO orders(origin, destination, distance, status)
\* ... RETURNING id; the table after it
InsertOrder(tbl, origin, destination, status, distance) ==
    Append(tbl, Row(origin, destination, distance, status))

\* main.go:173-190 and 237-241: Resolve inserts the order and createOrder
\* answers with the ResolvedOrder
ResolveInsert(p) ==
    /\ req[p].pc = "insert"
    /\ UNCHANGED <<listVars, fnVars, walk>>
    /\ \/ /\ Len(orders) < MaxOrders
          /\ orders' = InsertOrder(orders,
                         LatLngString(req[p].order.Origin),
                         LatLngString(req[p].order.Destination),
                         OrderStatusUnassign, req[p].distance)
          /\ req' = [req EXCEPT ![p].pc = "done",
                                ![p].http = StatusOK,
                                ![p].resolved =
                                   [Id |-> Len(orders'),
                                    Distance |-> req[p].distance,
                                    Status |-> OrderStatusUnassign]]
          /\ UNCHANGED <<lock, takesInRound>>
       \/ /\ req' = [req EXCEPT ![p] = ResolveFailed(req[p], StorageFault)]
          /\ UNCHANGED <<orders, lock, takesInRound>>

Next ==
    \E p \in Procs :
       \/ ReceivePost(p)
       \/ ResolveDistance(p)
       \/ ResolveInsert(p)
       \/ ReceivePut(p)
       \/ CallUpdateOrderStatus(p)
       \/ SelectForUpdate(p)
       \/ UpdateRow(p)
       \/ Commit(p)
       \/ Deadline(p)

Spec == Init /\ [][Next]_vars

\* FairSpec follows the calls of UpdateOrderStatus alone, each of them a
\* transaction of its own, to their return.
TxNext ==
    \E p \in Procs :
       \/ CallUpdateOrderStatus(p)
       \/ SelectForUpdate(p)
       \/ UpdateRow(p)
       \/ Commit(p)
       \/ Deadline(p)

\* database.go:84-85: the timer of context.WithTimeout runs whatever the
\* requests do, so the deadline of a call that has not returned does pass.
\* Nothing else is assumed: a round trip to the database may take for ever.
DeadlinesPass == \A p \in Procs : WF_vars(Deadline(p))

FairSpec == Init /\ [][TxNext]_vars /\ DeadlinesPass

(***************************************************************************)
(* GET /orders: listOrders (main.go:246-342) and RetrieveOrders            *)
(* (database.go:148-188).  ListSpec follows one GET request, cut at its two *)
(* queries, while other requests create orders and run transitions.        *)
(***************************************************************************)

\* main.go:25-27
DefaultOrderPage == 1
DefaultOrderLimit == 20
MaxOrderLimit == 20

\* Rows the table of ListSpec may hold.
MaxListRows == 3

CountFault == "failed to count orders"
\* rows.Close() on the nil *sql.Rows of a failed Query (database.go:166-168)
NilRowsPanic == "panic: invalid memory address or nil pointer dereference"

\* A query parameter is the sequence of the values the URL gives it: <<>>
\* when the URL does not name it.
Param(t) == <<t>>
Absent == <<>>
\* the requests: the page and limit parameters of the URL
Queries ==
    { [page |-> Absent, limit |-> Absent],
      [page |-> Param(<<"2">>), limit |-> Absent],
      [page |-> Param(<<"0">>), limit |-> Absent],
      [page |-> Absent, limit |-> Param(<<"2">>)],
      [page |-> Absent, limit |-> Param(<<"5", "0">>)],
      [page |-> Absent, limit |-> Param(<<"5", "0", "0">>)],
      [page |-> Absent, limit |-> Param(<<"x">>)],
      [page |-> Param(<<"1">>), limit |-> Param(<<"5", "0", "0">>)],
      [page |-> Param(<<"1">>), limit |-> Param(<<"-", "1">>)],
      [page |-> Param(<<"x">>), limit |-> Param(<<"1">>)],
      [page |-> <<<<"1">>, <<"2">>>>, limit |-> Param(<<"1">>)],
      [page |-> Param(<<"-", "1">>), limit |-> Absent],
      [page |-> Absent, limit |-> Param(<<"0">>)],
      [page |-> Absent, limit |-> <<<<"1">>, <<"2">>>>],
      [page |-> Param(<<"1">>), limit |-> Param(<<"0">>)],
      [page |-> Param(<<"0">>), limit |-> Param(<<"1">>)],
      [page |-> Param(<<"1">>), limit |-> Param(<<"x">>)],
      [page |-> Param(<<>>), limit |-> Param(<<"1">>)] }
    \cup
    { [page |-> Param(<<pg>>), limit |-> Param(<<l>>)] :
        pg \in {"1", "2", "3"}, l \in {"1", "2"} }

IdleGet ==
    [pc |-> "idle", pageParam |-> Absent, limitParam |-> Absent,
     page |-> 0, limit |-> 0, count |-> 0, resolved |-> <<>>,
     err |-> NoErr, http |-> NoResponse]

\* the test `i <= 0` written `i < 0`
validateOrdersListParam_ZeroAllowed(t) ==
    IF Len(t) = 1
    THEN LET i == Atoi(t[1])
         IN  IF i.err THEN [err |-> TRUE, val |-> i.val]
             ELSE IF i.val < 0 THEN [err |-> TRUE, val |-> 0]
             ELSE [err |-> FALSE, val |-> i.val]
    ELSE [err |-> TRUE, val |-> 0]

\* main.go:58-74: [err, val]
validateOrdersListParam(t) ==
    IF Len(t) = 1
    THEN LET i == Atoi(t[1])
         IN  IF i.err THEN [err |-> TRUE, val |-> i.val]
             ELSE IF i.val <= 0 THEN [err |-> TRUE, val |-> 0]
             ELSE [err |-> FALSE, val |-> i.val]
    ELSE [err |-> TRUE, val |-> 0]

\* main.go:246-327: the handler up to the call of RetrieveOrders(limit, page)
listOrders(g, pageParam, limitParam) ==
    LET pok == Len(pageParam) > 0
        lok == Len(limitParam) > 0
        got == [g EXCEPT !.pageParam = pageParam, !.limitParam = limitParam]
        p == validateOrdersListParam(pageParam)
        l == validateOrdersListParam(limitParam)
        bad == [got EXCEPT !.pc = "done", !.http = StatusBadRequest]
        call(limit, page) ==
            [got EXCEPT !.pc = "count", !.limit = limit, !.page = page]
    IN  CASE pok /\ lok ->
               IF l.err THEN bad
               ELSE IF p.err THEN bad
               ELSE call(l.val, p.val)
          [] pok /\ ~lok ->
               IF p.err THEN bad ELSE call(DefaultOrderLimit, p.val)
          [] lok /\ ~pok ->
               IF l.err THEN bad
               ELSE call(IF l.val > MaxOrderLimit THEN MaxOrderLimit
                         ELSE l.val,
                         DefaultOrderPage)
          [] OTHER -> call(DefaultOrderLimit, DefaultOrderPage)

\* what ListSpec does not use
mainVars == <<req, takesInRound>>

ReceiveGet ==
    /\ get.pc = "idle"
    /\ \E q \in Queries : get' = listOrders(get, q.page, q.limit)
    /\ UNCHANGED <<orders, lock, heap, mainVars, fnVars, walk>>

\* the count of 0 goes on to the page query like any other
AfterCount_NoEmptyCheck(g, count) ==
    [g EXCEPT !.pc = "page", !.count = count]

\* database.go:154-158 and main.go:339-341: what follows the count
AfterCount(g, count) ==
    IF count = 0
    THEN [g EXCEPT !.pc = "done", !.count = count, !.http = StatusOK]
    ELSE [g EXCEPT !.pc = "page", !.count = count]

\* database.go:139-152: SELECT COUNT(*) FROM orders, a read that takes no lock
countOrders ==
    /\ get.pc = "count"
    /\ \/ get' = AfterCount(get, Len(orders))
       \/ get' = [get EXCEPT !.pc = "done", !.err = CountFault,
                             !.http = StatusInternalServerError]
    /\ UNCHANGED <<orders, lock, heap, mainVars, fnVars, walk>>

Min(a, b) == IF a < b THEN a ELSE b
\* ceil(a / b), the number of pages (database.go:160)
CeilDiv(a, b) == (a + b - 1) \div b

\* a page past the end answered with the last rows of the table
PageRows_LastPageAgain(h, limit, pageOffset) ==
    IF pageOffset >= Len(h)
    THEN SubSeq(h, Len(h) - Min(limit, Len(h)) + 1, Len(h))
    ELSE SubSeq(h, pageOffset + 1, Min(pageOffset + limit, Len(h)))

\* LIMIT $1 OFFSET $2 on the rows as the scan reads them (database.go:164-167)
PageRows(h, limit, pageOffset) ==
    SubSeq(h, pageOffset + 1, Min(pageOffset + limit, Len(h)))

\* database.go:174-185: the ResolvedOrder of each row read
Resolved(tbl, ids) ==
    [i \in DOMAIN ids |->
       [Id |-> ids[i], Distance |-> tbl[ids[i]].distance,
        Status |-> tbl[ids[i]].status]]

\* database.go:160-188 and main.go:327-341: the page query, a read that takes
\* no lock.  A failed Query leaves rows nil and the deferred rows.Close()
\* panics when the function returns: the handler writes no response.
RetrieveOrders ==
    /\ get.pc = "page"
    /\ \/ get' = [get EXCEPT
                    !.pc = "done", !.http = StatusOK,
                    !.resolved =
                       Resolved(orders,
                                PageRows(heap, get.limit,
                                         get.limit * (get.page - 1)))]
       \/ get' = [get EXCEPT !.pc = "done", !.err = NilRowsPanic]
       \/ get' = [get EXCEPT !.pc = "done", !.err = StorageFault,
                             !.http = StatusInternalServerError]
    /\ UNCHANGED <<orders, lock, heap, mainVars, fnVars, walk>>

\* the request whose transaction holds a row lock in ListSpec
AnotherRequest == 1

\* one lock for the whole table
RowLockFree_TableLock(o) == \A o2 \in DOMAIN lock : lock[o2] = NoHolder

\* Row o's lock is free (FOR UPDATE is a row-level lock, database.go:102-105)
RowLockFree(o) == lock[o] = NoHolder

\* database.go:102-119: the SELECT ... FOR UPDATE of a transition of another
\* request, which waits for the row's lock and takes it
OtherSelectForUpdate(o) ==
    /\ Exists(o)
    /\ RowLockFree(o)
    /\ lock' = [lock EXCEPT ![o] = AnotherRequest]
    /\ UNCHANGED <<orders, heap, get, mainVars, fnVars, walk>>

OtherStatus(st) ==
    IF st = OrderStatusTaken THEN OrderStatusUnassign ELSE OrderStatusTaken

\* The scan order after row o was updated: Postgres writes the new version of
\* the row to free space, after the rows of the table, or to a place freed
\* earlier, here its old one.
Rewritten(h, o) ==
    {h, SelectSeq(h, LAMBDA x : x # o) \o <<o>>}

\* database.go:121-135 and 93-100: that transition writes the other status and
\* commits, or is rolled back
OtherCommit(o) ==
    /\ Exists(o)
    /\ lock[o] = AnotherRequest
    /\ lock' = [lock EXCEPT ![o] = NoHolder]
    /\ \/ /\ orders' = Committed(orders, {o}, OtherStatus(orders[o].status))
          /\ heap' \in Rewritten(heap, o)
       \/ UNCHANGED <<orders, heap>>
    /\ UNCHANGED <<get, mainVars, fnVars, walk>>

\* main.go:173-176: the arguments of the insert of another request's create
OtherOrigin == LatLngString(OriginLatLng)
OtherDestination == LatLngString(DestLatLng)
OtherDistance == SetMin(Distances)

\* database.go:54-70: the INSERT of a create of another request, which waits
\* for no row lock; the new row is read last
OtherInsertOrder ==
    /\ Len(orders) < MaxListRows
    /\ orders' = InsertOrder(orders, OtherOrigin, OtherDestination,
                             OrderStatusUnassign, OtherDistance)
    /\ heap' = Append(heap, Len(orders) + 1)
    /\ UNCHANGED <<lock, get, mainVars, fnVars, walk>>

ListInit ==
    /\ orders \in UNION { [1..n -> InitialRows] : n \in 0..MaxListRows }
    /\ lock = [o \in 1..MaxListRows |-> NoHolder]
    /\ heap = [i \in DOMAIN orders |-> i]
    /\ get = IdleGet
    /\ req = <<>>
    /\ takesInRound = <<>>
    /\ arg = <<>>
    /\ result = <<>>
    /\ walk = <<>>

ListNext ==
    \/ ReceiveGet
    \/ countOrders
    \/ RetrieveOrders
    \/ OtherInsertOrder
    \/ \E o \in OrderIds : OtherSelectForUpdate(o) \/ OtherCommit(o)

ListSpec == ListInit /\ [][ListNext]_vars

(***************************************************************************)
(* Functions applied on their own: FnSpec draws an argument and applies    *)
(* the function to it once.                                                *)
(***************************************************************************)

\* Elements a LatLng may hold: the text, whether it is a decimal number, and
\* the number it writes, in hundredths.
Components ==
    {
      [text |-> <<"9", "0">>, number |-> TRUE, hundredths |-> 9000],
      [text |-> <<"-", "9", "0">>, number |-> TRUE, hundredths |-> 0 - 9000],
      [text |-> <<"9", "0", ".", "0", "1">>, number |-> TRUE, hundredths |-> 9001],
      [text |-> <<"-", "9", "0", ".", "0", "1">>, number |-> TRUE, hundredths |-> 0 - 9001],
      [text |-> <<"9", "1">>, number |-> TRUE, hundredths |-> 9100],
      [text |-> <<"1", "8", "0">>, number |-> TRUE, hundredths |-> 18000],
      [text |-> <<"-", "1", "8", "0">>, number |-> TRUE, hundredths |-> 0 - 18000],
      [text |-> <<"1", "8", "0", ".", "0", "1">>, number |-> TRUE, hundredths |-> 18001],
      [text |-> <<"-", "1", "8", "0", ".", "0", "1">>, number |-> TRUE, hundredths |-> 0 - 18001],
      [text |-> <<"0">>, number |-> TRUE, hundredths |-> 0],
      [text |-> <<"+", "4", "5", ".", "5">>, number |-> TRUE, hundredths |-> 4550],
      [text |-> <<".", "5">>, number |-> TRUE, hundredths |-> 50],
      [text |-> <<"9", "e", "1">>, number |-> TRUE, hundredths |-> 9000],
      [text |-> <<"1", "e", "2">>, number |-> TRUE, hundredths |-> 10000],
      [text |-> <<>>, number |-> FALSE, hundredths |-> 0],
      [text |-> <<"b", "a", "d">>, number |-> FALSE, hundredths |-> 0],
      [text |-> <<"N", "a", "N">>, number |-> FALSE, hundredths |-> 0],
      [text |-> <<"I", "n", "f">>, number |-> FALSE, hundredths |-> 0],
      [text |-> <<"1", ".", "2", ".", "3">>, number |-> FALSE, hundredths |-> 0] }

\* elements of a LatLng argument
MaxLatLngLen == 3

LatLngArgs == UNION { [1..n -> Components] : n \in 0..MaxLatLngLen }

\* the LatLng an argument stands for
TextsOf(a) == [i \in DOMAIN a |-> a[i].text]

\* result is <<>> until the function has returned, then << its value >>
NoResult == <<>>

FnInit ==
    /\ arg \in LatLngArgs
    /\ result = NoResult
    /\ orders = <<>>
    /\ lock = <<>>
    /\ req = <<>>
    /\ takesInRound = <<>>
    /\ heap = <<>>
    /\ get = <<>>
    /\ walk = <<>>

\* l.IsValid() (main.go:77-89)
ApplyIsValid ==
    /\ result = NoResult
    /\ result' = <<IsValid(TextsOf(arg))>>
    /\ UNCHANGED <<orders, lock, req, takesInRound, listVars, arg, walk>>

FnNext == ApplyIsValid

FnSpec == FnInit /\ [][FnNext]_vars

(***************************************************************************)
(* A client that pages through the table with `page` and `limit` (README,  *)
(* GET /orders).  WalkSpec follows its GET requests for pages 1, 2, ... at  *)
(* one limit, up to page ceil(N / limit), while other requests run          *)
(* transitions and none creates an order.                                  *)
(***************************************************************************)

\* the limits the client pages with
MaxWalkLimit == 2

\* the decimal text of a natural number, as the client writes it in the URL
DigitOf(n) == CHOOSE c \in Digits : DigitVal(c) = n

RECURSIVE Itoa(_)
Itoa(n) ==
    IF n < 10 THEN <<DigitOf(n)>>
    ELSE Append(Itoa(n \div 10), DigitOf(n % 10))

WalkInit ==
    /\ orders \in UNION { [1..n -> InitialRows] : n \in 0..MaxListRows }
    /\ lock = [o \in 1..MaxListRows |-> NoHolder]
    /\ heap = [i \in DOMAIN orders |-> i]
    /\ get = IdleGet
    /\ walk \in {[limit |-> l, pages |-> <<>>] : l \in 1..MaxWalkLimit}
    /\ req = <<>>
    /\ takesInRound = <<>>
    /\ arg = <<>>
    /\ result = <<>>

\* the client asks for the page after the last one it has read
GetNextPage ==
    /\ get.pc = "idle"
    /\ Len(walk.pages) < CeilDiv(Len(orders), walk.limit)
    /\ get' = listOrders(get, Param(Itoa(Len(walk.pages) + 1)),
                         Param(Itoa(walk.limit)))
    /\ UNCHANGED <<orders, lock, heap, mainVars, fnVars, walk>>

\* the ids of the records of a response
IdsOf(resolved) == [i \in DOMAIN resolved |-> resolved[i].Id]

\* the client reads the response: it keeps the page of a 200, and asks again
\* for a page that failed
ReadPage ==
    /\ get.pc = "done"
    /\ walk' = IF get.http = StatusOK /\ get.err = NoErr
               THEN [walk EXCEPT !.pages = Append(@, IdsOf(get.resolved))]
               ELSE walk
    /\ get' = IdleGet
    /\ UNCHANGED <<orders, lock, heap, mainVars, fnVars>>

WalkNext ==
    \/ GetNextPage
    \/ countOrders
    \/ RetrieveOrders
    \/ ReadPage
    \/ \E o \in OrderIds : OtherSelectForUpdate(o) \/ OtherCommit(o)

WalkSpec == WalkInit /\ [][WalkNext]_vars

(***************************************************************************)
(* Properties.                                                             *)
(***************************************************************************)

Done(r) == r.pc = "done"
\* a call of the store with target taken, by a PUT or directly: a Take
IsTake(r) == r.op \in {"put", "call"} /\ r.newStatus = OrderStatusTaken
\* a call of the store with target UNASSIGN: a Release
IsRelease(r) == r.op = "call" /\ r.newStatus = OrderStatusUnassign
Takers(o) == {p \in Procs : IsTake(req[p]) /\ req[p].orderId = o}
Releasers(o) == {p \in Procs : IsRelease(req[p]) /\ req[p].orderId = o}
Succeeded(S) == {p \in S : Done(req[p]) /\ req[p].err = NoErr}
\* p's SELECT ... FOR UPDATE answers in this step (it does not fail)
Reads(p) ==
    /\ req[p].pc = "select"
    /\ req'[p].pc # "select"
    /\ req'[p].err \notin PersistenceErrors
\* p's transaction commits in this step
Commits(p) ==
    /\ req[p].pc = "commit"
    /\ Done(req'[p])
    /\ req'[p].err = NoErr

\* C1: between two successful Takes of an order there is a successful Release
\* of it (no order counts two successful Takes since its last successful
\* Release), and while no Release of an order is called at most one Take of it
\* returns success.
C1_OneTakePerRound ==
    \A o \in 1..MaxOrders :
       /\ takesInRound[o] <= 1
       /\ Releasers(o) = {} => Cardinality(Succeeded(Takers(o))) <= 1

\* a Release of a taken order succeeded and a Take of it succeeded after it
C1_Witness ==
    \E o \in DOMAIN orders :
       /\ Succeeded(Releasers(o)) # {}
       /\ Succeeded(Takers(o)) # {}
       /\ takesInRound[o] = 1
       /\ orders[o].status = OrderStatusTaken

\* Takes of order o that all arrived while o existed and was UNASSIGN have all
\* returned, and no Release of o was called
RaceOn(o) ==
    /\ Takers(o) # {}
    /\ \A p \in Takers(o) :
          Done(req[p]) /\ req[p].seen = OrderStatusUnassign
    /\ Releasers(o) = {}

\* C2 as stated: of the callers that concurrently Take one existing UNASSIGN
\* order, exactly one returns success and every other returns AlreadyTaken,
\* not PersistenceError (checked here where one caller did return success and
\* the storage itself never failed).
C2_ExactlyOneOthersConflict ==
    \A o \in 1..MaxOrders :
       (/\ RaceOn(o)
        /\ Succeeded(Takers(o)) # {}
        /\ \A p \in Takers(o) : req[p].err # StorageFault) =>
          \E p \in Takers(o) :
             /\ req[p].err = NoErr
             /\ \A q \in Takers(o) \ {p} :
                   req[q].err = OrderAlreadyTakenError

\* C2 amended: of the callers that concurrently Take one existing UNASSIGN
\* order, at most one returns success; a caller whose transaction meets its
\* deadline or a storage fault returns that error (a 500); every other caller
\* returns AlreadyTaken (409) and none OrderNotFound; and exactly one returns
\* success unless every caller failed with such an error.
C2_OneWinnerOthersConflictOrFail ==
    \A o \in 1..MaxOrders :
       RaceOn(o) =>
          LET won == Succeeded(Takers(o))
              failed == {p \in Takers(o) : req[p].err \in PersistenceErrors}
          IN  /\ Cardinality(won) <= 1
              /\ \A p \in Takers(o) \ (won \cup failed) :
                    req[p].err = OrderAlreadyTakenError
              /\ \A p \in Takers(o) :
                    req[p].op = "put" =>
                       req[p].http = IF p \in won THEN StatusOK
                                     ELSE IF p \in failed
                                     THEN StatusInternalServerError
                                     ELSE StatusConflict
              /\ failed # Takers(o) => Cardinality(won) = 1

\* two callers raced for one UNASSIGN order: one won, the other got the conflict
C2_Witness ==
    \E o \in DOMAIN orders :
       /\ RaceOn(o)
       /\ \E p, q \in Takers(o) :
             /\ req[p].err = NoErr
             /\ req[q].err = OrderAlreadyTakenError

\* C3: a Take that names an id with no row returns sql.ErrNoRows, answered
\* 404, whenever its transaction gets to read at all (else the storage error,
\* a 500); it never returns success or AlreadyTaken, and no step of it inserts
\* or changes a row.
C3_TakeOfMissingOrder ==
    /\ [](\A p \in Procs :
            (IsTake(req[p]) /\ Done(req[p]) /\ ~Exists(req[p].orderId)) =>
               /\ req[p].err \in {ErrNoRows} \cup PersistenceErrors
               /\ req[p].op = "put" =>
                     req[p].http = IF req[p].err = ErrNoRows
                                   THEN StatusNotFound
                                   ELSE StatusInternalServerError)
    /\ [][\A p \in Procs :
            (IsTake(req'[p]) /\ req'[p] # req[p]
               /\ req'[p].orderId \notin DOMAIN orders') =>
               /\ orders' = orders
               /\ Reads(p) => req'[p].err = ErrNoRows]_vars

\* a PUT that Takes an id with no row was answered 404
C3_Witness ==
    \E p \in Procs :
       /\ IsTake(req[p]) /\ Done(req[p]) /\ req[p].op = "put"
       /\ ~Exists(req[p].orderId)
       /\ req[p].err = ErrNoRows
       /\ req[p].http = StatusNotFound

\* C4: a Take whose locked read finds the order taken returns
\* OrderAlreadyTakenError, answered 409, writes nothing and leaves the status
\* taken; so a Take that arrives when the order is taken (a Take succeeded
\* before it and nothing released the order) gets that conflict unless its
\* transaction fails.
C4_TakeOfTakenOrder ==
    /\ [](\A p \in Procs :
            (IsTake(req[p]) /\ Done(req[p])
               /\ req[p].seen = OrderStatusTaken
               /\ Releasers(req[p].orderId) = {}) =>
               /\ req[p].err \in {OrderAlreadyTakenError} \cup PersistenceErrors
               /\ orders[req[p].orderId].status = OrderStatusTaken)
    /\ [][\A p \in Procs :
            (IsTake(req[p]) /\ Reads(p) /\ Exists(req[p].orderId)
               /\ orders[req[p].orderId].status = OrderStatusTaken) =>
               /\ req'[p].err = OrderAlreadyTakenError
               /\ req[p].op = "put" => req'[p].http = StatusConflict
               /\ Done(req'[p])
               /\ orders' = orders]_vars

\* a Take succeeded; a second Take of the order, arriving after it, got 409
C4_Witness ==
    \E p, q \in Procs :
       /\ IsTake(req[p]) /\ IsTake(req[q])
       /\ req[p].orderId = req[q].orderId
       /\ Done(req[p]) /\ req[p].err = NoErr /\ req[p].http = StatusOK
       /\ req[p].seen = OrderStatusUnassign
       /\ Done(req[q]) /\ req[q].seen = OrderStatusTaken
       /\ req[q].err = OrderAlreadyTakenError
       /\ req[q].http = StatusConflict

\* C5: while a transition's transaction is open its write is not visible (the
\* committed status is the one it read), and when its deadline passes at any
\* round trip before the commit, the call returns the deadline's error (a 500
\* for a PUT), its lock is released and no row is changed.
C5_DeadlineRollsBack ==
    /\ [](\A p \in Procs :
            req[p].pc \in {"update", "commit"} =>
               orders[req[p].orderId].status = req[p].status)
    /\ [][\A p \in Procs :
            (InTx(req[p]) /\ req'[p].err = DeadlineExceeded) =>
               /\ orders' = orders
               /\ Done(req'[p])
               /\ \A o \in DOMAIN lock : lock'[o] # p
               /\ req[p].op = "put" =>
                     req'[p].http = StatusInternalServerError]_vars

\* a deadline passed after the locked read; the order has the status read
C5_Witness ==
    \E p \in Procs :
       /\ Done(req[p])
       /\ req[p].err = DeadlineExceeded
       /\ req[p].status \in Statuses
       /\ orders[req[p].orderId].status = req[p].status
       /\ req[p].status # req[p].newStatus

\* C6: the status of every row is UNASSIGN or taken.
C6_StatusInEnum ==
    \A o \in DOMAIN orders : orders[o].status \in Statuses

\* an order was created and a transition was committed
C6_Witness ==
    /\ \E p \in Procs : req[p].op = "post" /\ req[p].http = StatusOK
    /\ \E p \in Procs :
          /\ IsTake(req[p]) \/ IsRelease(req[p])
          /\ p \in Succeeded(Procs)

\* C7: every step keeps every row, with its origin, destination and distance;
\* a status changes only in the commit of a transition that names the row, and
\* that step changes no other row.
C7_Frame ==
    [][\A o \in DOMAIN orders :
          /\ o \in DOMAIN orders'
          /\ orders'[o].origin = orders[o].origin
          /\ orders'[o].destination = orders[o].destination
          /\ orders'[o].distance = orders[o].distance
          /\ orders'[o].status # orders[o].status =>
                /\ \E p \in Procs : Commits(p) /\ req[p].orderId = o
                /\ \A o2 \in DOMAIN orders \ {o} : orders'[o2] = orders[o2]
                /\ DOMAIN orders' = DOMAIN orders]_vars

\* a transition was committed in a table of two rows of the same status
C7_Witness ==
    \E p \in Succeeded(Procs) :
       /\ IsTake(req[p]) \/ IsRelease(req[p])
       /\ \E o \in DOMAIN orders \ {req[p].orderId} :
             orders[o].status = req[p].status

C9_PutUnassignAccepted ==
    [][\A p \in Procs :
          (req[p].pc = "idle" /\ req'[p].op = "put"
             /\ req'[p].reqStatus = OrderStatusUnassign
             /\ Exists(req'[p].orderId)
             /\ orders[req'[p].orderId].status = OrderStatusTaken) =>
             req'[p].http # StatusBadRequest]_vars

\* C10: the insert of a successful create adds one row, under the id returned,
\* holding the origin and destination strings and the distance it was given
\* and the status UNASSIGN, and the ResolvedOrder returned carries that id,
\* distance and status; the row read later still has those values (its status
\* unless a Take of it was committed since).
C10_CreateRoundTrip ==
    /\ [](\A p \in Procs :
            (req[p].op = "post" /\ req[p].http = StatusOK) =>
               LET id == req[p].resolved.Id IN
               /\ Exists(id)
               /\ orders[id].origin = LatLngString(req[p].order.Origin)
               /\ orders[id].destination =
                     LatLngString(req[p].order.Destination)
               /\ orders[id].distance = req[p].distance
               /\ req[p].resolved.Distance = req[p].distance
               /\ req[p].resolved.Status = OrderStatusUnassign
               /\ \/ orders[id].status = OrderStatusUnassign
                  \/ Succeeded(Takers(id)) # {})
    /\ [][\A p \in Procs :
            (req[p].pc = "insert" /\ req'[p].http = StatusOK) =>
               LET id == req'[p].resolved.Id IN
               /\ id \notin DOMAIN orders
               /\ DOMAIN orders' = DOMAIN orders \cup {id}
               /\ orders'[id] =
                     Row(LatLngString(req[p].order.Origin),
                         LatLngString(req[p].order.Destination),
                         req[p].distance, OrderStatusUnassign)]_vars

\* an order was created and answered with its id and distance
C10_Witness ==
    \E p \in Procs :
       /\ req[p].op = "post" /\ req[p].http = StatusOK
       /\ req[p].resolved.Id \in DOMAIN orders
       /\ orders[req[p].resolved.Id].distance \in Distances
       /\ orders[req[p].resolved.Id].origin = LatLngString(DestLatLng)

\* the bodies whose origin or destination is no valid coordinate pair
InvalidBodies ==
    {b \in OrderBodies : ~(IsValid(b.Origin) /\ IsValid(b.Destination))}

\* a create request whose decoded body is one of them
InvalidCreate(r) == r.op = "post" /\ r.order \in InvalidBodies

\* C11: a create request whose origin or destination is not a valid
\* coordinate pair is answered 400 in the step that receives it, which changes
\* no row; it never reaches the distance lookup or the insert, holds no
\* distance and no ResolvedOrder.
C11_InvalidCreateRejectedFirst ==
    /\ [](\A p \in Procs :
            InvalidCreate(req[p]) =>
               /\ Done(req[p])
               /\ req[p].http = StatusBadRequest
               /\ req[p].distance = 0
               /\ req[p].resolved = NoResolved)
    /\ [][\A p \in Procs :
            (InvalidCreate(req'[p]) /\ req'[p] # req[p]) =>
               /\ orders' = orders
               /\ req'[p].pc \notin {"resolve", "insert"}]_vars

\* both kinds of invalid body were answered 400: a bad origin, and a valid
\* origin with a destination out of range
C11_Witness ==
    \E p, q \in Procs :
       /\ InvalidCreate(req[p]) /\ req[p].http = StatusBadRequest
       /\ ~IsValid(req[p].order.Origin)
       /\ InvalidCreate(req[q]) /\ req[q].http = StatusBadRequest
       /\ IsValid(req[q].order.Origin)

\* a call of the store's transition, by a PUT or directly
IsTransition(r) == IsTake(r) \/ IsRelease(r)
\* p's call returns in this step
Returns(p) == ~Done(req[p]) /\ Done(req'[p])
ConflictErrors == {OrderAlreadyTakenError, OrderAlreadyUnassignError}

\* C18: a transition that fails returns exactly one of sql.ErrNoRows, the
\* conflict of its target, or a storage/deadline error, and a PUT answers them
\* 404, 409 and 500 (200 for success only).  It returns sql.ErrNoRows only when
\* the order is missing and a conflict only when the order exists with the
\* target status; a step that fails at the storage (a fault, a failed commit,
\* a deadline) returns that error; and success is returned only by a commit
\* that changed the order's status.
C18_FailureKinds ==
    /\ [](\A p \in Procs :
            (IsTransition(req[p]) /\ Done(req[p])) =>
               /\ req[p].err \in {NoErr, ErrNoRows} \cup ConflictErrors
                                   \cup PersistenceErrors
               /\ req[p].op = "put" =>
                     /\ req[p].http = StatusOK <=> req[p].err = NoErr
                     /\ req[p].http = StatusNotFound <=> req[p].err = ErrNoRows
                     /\ req[p].http = StatusConflict
                           <=> req[p].err = OrderAlreadyTakenError
                     /\ req[p].http = StatusInternalServerError
                           <=> req[p].err \in PersistenceErrors)
    /\ [][\A p \in Procs :
            (IsTransition(req'[p]) /\ Returns(p)) =>
               LET o == req'[p].orderId
                   e == req'[p].err
               IN  /\ e = ErrNoRows => ~Exists(o)
                   /\ ~Exists(o) => e \in {ErrNoRows} \cup PersistenceErrors
                   /\ e \in ConflictErrors =>
                         /\ Exists(o)
                         /\ orders[o].status = req'[p].newStatus
                         /\ e = ConflictError(orders[o].status,
                                               req'[p].newStatus)
                   /\ e = NoErr =>
                         /\ Commits(p)
                         /\ orders[o].status # req'[p].newStatus
                         /\ orders'[o].status = req'[p].newStatus
                   /\ e # NoErr => orders' = orders]_vars

\* a PUT was answered 500 for a deadline, and another 404 or 409
C18_Witness ==
    \E p \in Procs :
       /\ req[p].op = "put" /\ Done(req[p])
       /\ req[p].err = DeadlineExceeded
       /\ req[p].http = StatusInternalServerError
       /\ \E q \in Procs :
             /\ req[q].op = "put"
             /\ req[q].http \in {StatusNotFound, StatusConflict}

\* The outcomes [err, tbl] of a transition of order o to newStatus that runs
\* its read, check and write as one atomic step on table tbl (the reference
\* of C19; the storage may fail it, which changes nothing).
AtomicTransition(tbl, o, newStatus) ==
    {[err |-> e, tbl |-> tbl] : e \in PersistenceErrors}
    \cup
    (IF o \notin DOMAIN tbl
     THEN {[err |-> ErrNoRows, tbl |-> tbl]}
     ELSE IF tbl[o].status = newStatus
     THEN {[err |-> IF newStatus = OrderStatusTaken
                    THEN OrderAlreadyTakenError
                    ELSE OrderAlreadyUnassignError,
            tbl |-> tbl]}
     ELSE {[err |-> NoErr,
            tbl |-> [tbl EXCEPT ![o].status = newStatus]]})

\* C19: the step in which a transition returns acts on the committed table as
\* the whole call run atomically at that moment would (same result, same
\* table after it), and no other step of a transition changes the table: a
\* concurrent execution equals the sequential execution of the calls in the
\* order they return.
C19_Serializable ==
    [][\A p \in Procs :
          (IsTransition(req'[p]) /\ req'[p] # req[p]) =>
             IF Returns(p)
             THEN [err |-> req'[p].err, tbl |-> orders']
                    \in AtomicTransition(orders, req'[p].orderId,
                                         req'[p].newStatus)
             ELSE orders' = orders]_vars

\* a Take that arrived while the order was taken succeeded, after a Release
\* that overlapped it was committed
C19_Witness ==
    \E o \in DOMAIN orders :
       \E p \in Succeeded(Releasers(o)), q \in Succeeded(Takers(o)) :
          /\ req[q].seen = OrderStatusTaken
          /\ orders[o].status = OrderStatusTaken

\* C17: IsValid answers true exactly for a sequence of two elements that are
\* both decimal numbers, the first in [-90, 90] and the second in [-180, 180],
\* bounds included; applying it changes nothing but its result.
C17_IsValidIff ==
    /\ [](result # NoResult =>
            (result[1] <=>
               /\ Len(arg) = 2
               /\ arg[1].number /\ arg[2].number
               /\ arg[1].hundredths >= 0 - 9000 /\ arg[1].hundredths <= 9000
               /\ arg[2].hundredths >= 0 - 18000
               /\ arg[2].hundredths <= 18000))
    /\ [][arg' = arg /\ orders' = orders /\ req' = req]_vars

\* IsValid accepted the pair of both upper bounds, one written with an
\* exponent
C17_Witness ==
    /\ result = <<TRUE>>
    /\ TextsOf(arg) = << <<"9", "e", "1">>, <<"1", "8", "0">> >>

\* the page query of the GET request answers in this step
PageAnswered ==
    get.pc = "page" /\ get'.pc = "done" /\ get'.err = NoErr
\* the ids first..last in ascending order
IdsFrom(first, last) == [i \in 1..(last - first + 1) |-> first + i - 1]

\* C12 as stated: a page query on a table of N > 0 rows answers with the rows
\* at positions limit*(page-1)+1 .. min(limit*page, N) of the table in
\* ascending id order.
C12_PageInIdOrder ==
    [][PageAnswered =>
         get'.resolved =
            Resolved(orders,
                     IdsFrom(get.limit * (get.page - 1) + 1,
                             Min(get.limit * get.page, Len(orders))))]_vars

\* C13: a page query for a page after the last one, ceil(N / limit), of the
\* N rows in the table is answered with the empty sequence, no error and 200.
C13_PageBeyondLastIsEmpty ==
    [][(PageAnswered /\ get.page > CeilDiv(Len(orders), get.limit)) =>
         /\ get'.resolved = <<>>
         /\ get'.http = StatusOK]_vars

\* page 3 of a table of rows at 2 a page was answered empty
C13_Witness ==
    /\ get.pc = "done" /\ get.http = StatusOK /\ get.err = NoErr
    /\ get.count > 0
    /\ get.limit = 2 /\ get.page = 3
    /\ Len(orders) \in 1..4
    /\ get.resolved = <<>>

\* C14: the count of an empty table ends the request: unless the count itself
\* fails, the answer is the empty sequence with no error and 200, whatever the
\* limit and page, and no page is queried (a request at its page query counted
\* at least one row).
C14_EmptyStore ==
    /\ [](get.pc = "page" => get.count > 0)
    /\ [][(get.pc = "count" /\ get' # get /\ Len(orders) = 0) =>
            /\ get'.pc = "done"
            /\ get'.resolved = <<>>
            /\ get'.err \in {NoErr, CountFault}
            /\ get'.err = NoErr => get'.http = StatusOK]_vars

\* page 2 at 2 rows a page of an empty table was answered empty
C14_Witness ==
    /\ get.pc = "done" /\ get.http = StatusOK /\ get.err = NoErr
    /\ get.count = 0 /\ Len(orders) = 0
    /\ get.limit = 2 /\ get.page = 2
    /\ get.resolved = <<>>

\* the request reached the store (it was not answered 400)
ReachedStore(g) == g.pc # "idle" /\ g.http # StatusBadRequest

\* the maximum the README and the comment of main.go:316-318 give for limit
DocumentedMaxLimit == 100

\* C15 as stated: a request with a limit and no page is executed with that
\* limit, clamped to 100.
C15_LimitOnlyClampedTo100 ==
    (ReachedStore(get) /\ get.pageParam = Absent /\ get.limitParam # Absent) =>
       get.limit = Min(validateOrdersListParam(get.limitParam).val,
                       DocumentedMaxLimit)

\* C16 as stated: no request is executed with a LIMIT above 100, the most rows
\* the page query serves, and none is answered with more than 100 records.
C16_AtMost100Served ==
    ReachedStore(get) =>
       /\ get.limit <= DocumentedMaxLimit
       /\ Len(get.resolved) <= DocumentedMaxLimit

\* C20: row locks held by transitions in progress never make the count or the
\* page query of a list wait, nor an insert; a transition's locked read can
\* go on exactly when the lock of the row it names is free, whatever other
\* rows are locked.
C20_NoSharedLock ==
    /\ get.pc = "count" => ENABLED (countOrders /\ get'.err = NoErr)
    /\ get.pc = "page" => ENABLED (RetrieveOrders /\ get'.err = NoErr)
    /\ Len(orders) < MaxListRows => ENABLED OtherInsertOrder
    /\ \A o \in DOMAIN orders :
          ENABLED OtherSelectForUpdate(o) <=> lock[o] = NoHolder

\* two rows are locked by transitions in progress, a third row is free, and
\* the list is between its count and its page query
C20_Witness ==
    /\ Len(orders) = 3
    /\ lock[1] = AnotherRequest /\ lock[2] = AnotherRequest
    /\ lock[3] = NoHolder
    /\ get.pc = "page"

\* the rows whose lock p's transaction holds
LocksOf(p) == {o \in DOMAIN lock : lock[o] = p}

\* C21: a transition call whose transaction is open eventually returns.  A
\* call that has returned, by whatever exit (success, sql.ErrNoRows, conflict,
\* storage error, deadline), has no open transaction: the step in which it
\* returns commits its write or leaves the table as it was, and frees the row
\* lock it held.  A row lock is held only by a call whose transaction is open,
\* so none is held for ever; and a call waiting at its locked read for a lock
\* another call holds leaves the read only by failing, with its deadline's
\* error or the storage's, until the lock is free.
C21_ReturnsAndReleases ==
    /\ [](\A p \in Procs :
            ~InTx(req[p]) => LocksOf(p) = {} /\ req[p].txRows = {})
    /\ [][\A p \in Procs :
            /\ (IsTransition(req'[p]) /\ Returns(p)) =>
                  /\ \A o \in DOMAIN lock : lock[o] = p => lock'[o] = NoHolder
                  /\ \/ Commits(p)
                     \/ req'[p].err # NoErr /\ orders' = orders
            /\ (req[p].pc = "select" /\ req'[p] # req[p]
                  /\ Exists(req[p].orderId)
                  /\ lock[req[p].orderId] # NoHolder) =>
                  /\ Done(req'[p])
                  /\ req'[p].err \in PersistenceErrors]_vars
    /\ \A p \in Procs : InTx(req[p]) ~> Done(req[p])

\* two calls named one row: one committed its write, the other met its
\* deadline at its locked read; neither holds a lock
C21_Witness ==
    \E p, q \in Procs :
       /\ p # q
       /\ IsTransition(req[p]) /\ IsTransition(req[q])
       /\ req[p].orderId = req[q].orderId
       /\ Done(req[q]) /\ req[q].err = NoErr
       /\ Done(req[p]) /\ req[p].err = DeadlineExceeded
       /\ req[p].status = ""
       /\ LocksOf(p) = {} /\ LocksOf(q) = {}

\* the errors computeDistance returns
ResolverErrors == {MapsFault, NoRoutes}

\* the distances computeDistance returns with no error
ReturnedDistances ==
    {computeDistance(resp).Meters :
       resp \in {r \in ApiResponses : computeDistance(r).err = NoErr}}

\* C22: a create request inserts in one step only, which it reaches only from
\* a call of computeDistance that returned a distance with no error; that step
\* adds one row, holding that distance, and is the last of the request.  The
\* step of computeDistance itself inserts nothing, and when it returns an error
\* the request ends there, answered 500 with that error, with no order.
C22_ResolveBeforeInsert ==
    /\ [](\A p \in Procs :
            req[p].op = "post" =>
               /\ req[p].pc = "insert" =>
                     req[p].distance \in ReturnedDistances
               /\ req[p].http = StatusOK =>
                     /\ req[p].distance \in ReturnedDistances
                     /\ req[p].err = NoErr
               /\ req[p].err \in ResolverErrors =>
                     /\ Done(req[p])
                     /\ req[p].http = StatusInternalServerError
                     /\ req[p].resolved = NoResolved)
    /\ [][\A p \in Procs :
            (req'[p].op = "post" /\ req'[p] # req[p]) =>
               /\ ~Done(req[p])
               /\ req'[p].pc = "insert" => req[p].pc = "resolve"
               /\ req[p].pc = "resolve" =>
                     /\ orders' = orders
                     /\ \/ /\ req'[p].pc = "insert"
                           /\ req'[p].distance \in ReturnedDistances
                        \/ /\ Done(req'[p])
                           /\ req'[p].err \in ResolverErrors
               /\ orders' # orders =>
                     /\ req[p].pc = "insert"
                     /\ Done(req'[p])
                     /\ Len(orders') = Len(orders) + 1
                     /\ SubSeq(orders', 1, Len(orders)) = orders
                     /\ orders'[Len(orders')].distance = req[p].distance]_vars

\* one create was answered with the distance computeDistance returned, now in
\* its row; another ended with the error of computeDistance
C22_Witness ==
    \E p, q \in Procs :
       /\ req[p].op = "post" /\ req[p].http = StatusOK
       /\ req[p].distance \in Distances
       /\ orders[req[p].resolved.Id].distance = req[p].distance
       /\ req[q].op = "post" /\ Done(req[q])
       /\ req[q].err = NoRoutes
       /\ req[q].http = StatusInternalServerError

\* the pages read, one after the other
RECURSIVE Concat(_)
Concat(pages) ==
    IF pages = <<>> THEN <<>> ELSE Head(pages) \o Concat(Tail(pages))

\* the client has read pages 1 .. ceil(N / limit)
WalkDone ==
    /\ get.pc = "idle"
    /\ Len(walk.pages) = CeilDiv(Len(orders), walk.limit)

\* C23 as stated: while no order is created, the pages 1 .. ceil(N / limit)
\* read at one limit are all non-empty and, one after the other, give the N
\* orders in storage order (ascending id), each exactly once.
C23_PagesPartition ==
    WalkDone =>
       /\ \A i \in DOMAIN walk.pages : walk.pages[i] # <<>>
       /\ Concat(walk.pages) = IdsFrom(1, Len(orders))

\* the texts among the requests' parameter values that write a positive
\* integer
PositiveIntegers ==
    {<<"1">>, <<"2">>, <<"3">>, <<"5", "0">>, <<"5", "0", "0">>}

\* a parameter the URL names, but not with a single positive integer
BadParam(t) == t # Absent /\ ~(Len(t) = 1 /\ t[1] \in PositiveIntegers)

\* C24: a list request that names page or limit with anything but a single
\* positive integer (zero, negative, no number, no text, two values) is
\* answered 400 in the step that receives it and never gets to the store's
\* queries; a request that gets to the store has page 1 when it names no page
\* and limit 20 when it names no limit, and always a positive page and limit.
C24_ListParamsValidated ==
    get.pc # "idle" =>
       /\ (BadParam(get.pageParam) \/ BadParam(get.limitParam)) =>
             /\ get.pc = "done"
             /\ get.http = StatusBadRequest
             /\ get.count = 0 /\ get.resolved = <<>> /\ get.err = NoErr
       /\ ReachedStore(get) =>
             /\ get.page > 0 /\ get.limit > 0
             /\ get.pageParam = Absent => get.page = 1
             /\ get.limitParam = Absent => get.limit = 20
             /\ ~BadParam(get.pageParam) /\ ~BadParam(get.limitParam)

\* a request with a good page and the limit 0 was answered 400
C24_Witness ==
    /\ get.pc = "done"
    /\ get.pageParam = Param(<<"1">>)
    /\ get.limitParam = Param(<<"0">>)
    /\ get.http = StatusBadRequest
    /\ Len(orders) > 0

\* C25: a transition is at its conditional write only after its locked read:
\* it then holds the lock of its row, the status it read differs from its
\* target and is still the committed status of the row, so the WHERE clause
\* of the write selects exactly that row.  The write is reached from the read
\* alone and never returns sql.ErrNoRows: that error is returned by the read
\* alone, for an order that does not exist.
C25_WriteMatchesRowRead ==
    /\ [](\A p \in Procs :
            LET o == req[p].orderId IN
            /\ req[p].pc \in {"update", "commit"} =>
                  /\ Exists(o)
                  /\ lock[o] = p
                  /\ req[p].status \in Statuses
                  /\ req[p].status # req[p].newStatus
                  /\ orders[o].status = req[p].status
                  /\ UpdatedRows(orders, req[p].newStatus, o, req[p].status)
                        = {o}
            /\ req[p].pc = "commit" => req[p].txRows = {o})
    /\ [][\A p \in Procs :
            /\ (req'[p].pc = "update" /\ req[p].pc # "update") =>
                  /\ req[p].pc = "select"
                  /\ lock[req[p].orderId] = NoHolder
                  /\ req'[p].status = orders[req[p].orderId].status
            /\ req[p].pc = "update" => req'[p].err # ErrNoRows
            /\ (IsTransition(req'[p]) /\ Returns(p)
                  /\ req'[p].err = ErrNoRows) =>
                  /\ req[p].pc = "select"
                  /\ ~Exists(req[p].orderId)
            /\ (req'[p].pc = "commit" /\ req[p].pc # "commit") =>
                  req[p].pc = "update"]_vars

\* a transition has made its write, which selected its row, while another
\* transition of the same order waits at its locked read
C25_Witness ==
    \E p, q \in Procs :
       /\ p # q
       /\ req[p].pc = "commit"
       /\ req[p].txRows = {req[p].orderId}
       /\ req[q].pc = "select"
       /\ req[q].orderId = req[p].orderId
       /\ req[q].newStatus # req[p].newStatus

\* p's step changes the committed status of row o from the other value of
\* the enum to target, and nothing else in the table
ChangesStatus(o, target) ==
    /\ o \in DOMAIN orders
    /\ orders[o].status \in Statuses \ {target}
    /\ orders' = [orders EXCEPT ![o].status = target]

\* C26: a step of a transition call returns success exactly when it is the
\* commit of the call's own transaction and changes the status of the order
\* named from the other value to the target; every other step of the call
\* (a read, a write inside the transaction, a rollback, a failed commit, a
\* return with an error) leaves the committed table as it is.  So a call that
\* has returned an error has changed nothing, and one whose commit failed has
\* returned an error.
C26_SuccessIffCommittedChange ==
    /\ [][\A p \in Procs :
            (IsTransition(req'[p]) /\ req'[p] # req[p]) =>
               LET success == Returns(p) /\ req'[p].err = NoErr
                   o == req'[p].orderId
               IN  /\ success <=>
                         /\ req[p].pc = "commit"
                         /\ ChangesStatus(o, req'[p].newStatus)
                   /\ ~success => orders' = orders
                   /\ (req[p].pc = "commit" /\ orders' = orders) =>
                         /\ Returns(p)
                         /\ req'[p].err \in PersistenceErrors]_vars
    /\ [](\A p \in Procs :
            (IsTransition(req[p]) /\ Done(req[p])) =>
               /\ req[p].txRows = {}
               /\ LocksOf(p) = {}
               /\ req[p].err = NoErr =>
                     req[p].status \in Statuses \ {req[p].newStatus})

\* a call failed at the storage after its read and left the status it read;
\* a later call with the same target committed the change
C26_Witness ==
    \E p, q \in Procs :
       /\ p < q
       /\ IsTransition(req[p]) /\ IsTransition(req[q])
       /\ req[p].orderId = req[q].orderId
       /\ req[p].newStatus = req[q].newStatus
       /\ Done(req[p]) /\ req[p].err = StorageFault
       /\ req[p].status \in Statuses
       /\ Done(req[q]) /\ req[q].err = NoErr
       /\ req[q].status = req[p].status
       /\ orders[req[q].orderId].status = req[q].newStatus

=============================================================================
